---- MODULE Spec2Model ----
(***************************************************************************)
(* Bait-mention storage of the Rayburn Ranger backend: the SQLite store of *)
(* backend/db.py, the HTTP ingest handler of backend/app.py and the batch  *)
(* runner and extractor of backend/scripts/transcribe_extract.py.          *)
(*                                                                         *)
(* Text values (Python str) are sequences of one-character strings, so     *)
(* that str.strip() is computed and not assumed.  Python's None and a      *)
(* missing dict key read through dict.get are the value NULL.  A dict is a *)
(* function from the keys it holds.                                        *)
(*                                                                         *)
(* The store is one SQLite database opened in WAL mode by every caller:    *)
(* db is the committed database, lock names the connection that holds the  *)
(* single write lock, work is that connection's uncommitted database.  A   *)
(* connection whose first write finds the lock taken waits in SQLite's     *)
(* busy handler; when the wait outlasts the timeout of the connection (5 s *)
(* by default) the statement fails with "database is locked".              *)
(* Calls run one SQL statement per step, so that statements of concurrent  *)
(* calls interleave as the connections of two callers do.                  *)
(* now_iso() is read as the logical time of the call, clock.               *)
(***************************************************************************)
EXTENDS Integers, Sequences, FiniteSets, TLC

VARIABLES db, work, lock, proc, clock, last2, first, ex

vars == <<db, work, lock, proc, clock, last2, first, ex>>

\* Number of calls (HTTP ingests, runs of the script, calls of
\* insert_bait_hits, summary requests) started in a run.
MaxCalls == 3

\* The largest limit a summary request asks for.
MaxLimit == 1

\* The limits requested: limit is any integer of the query string.
Limits == -1 .. MaxLimit

\* The connections: two concurrent callers.
Procs == {"p1", "p2"}

NoLock == "none"

------------------------------------------------------------------------------
(* Python values *)

NULL == <<"None">>

EmptyDict == <<>>

WHITESPACE == {" ", "\t", "\n"}

\* x is truthy: neither None, nor "", nor an empty dict or list.
Truthy(x) == x # NULL /\ x # <<>>

\* a or b
Or(a, b) == IF Truthy(a) THEN a ELSE b

\* d.get(k)
Get(d, k) == IF k \in DOMAIN d THEN d[k] ELSE NULL

\* d.get(k, dflt)
GetDefault(d, k, dflt) == IF k \in DOMAIN d THEN d[k] ELSE dflt

RECURSIVE LStrip(_)
LStrip(s) == IF s # <<>> /\ Head(s) \in WHITESPACE THEN LStrip(Tail(s)) ELSE s

RECURSIVE RStrip(_)
RStrip(s) ==
    IF s # <<>> /\ s[Len(s)] \in WHITESPACE
    THEN RStrip(SubSeq(s, 1, Len(s) - 1))
    ELSE s

\* str.strip()
Strip(s) == RStrip(LStrip(s))

Max(S) == CHOOSE x \in S : \A y \in S : y <= x

------------------------------------------------------------------------------
(* The store: tables created by init_db *)

EmptyDb ==
    [videos |-> {}, baits |-> {}, hits |-> {},
     seq |-> [baits |-> 0, hits |-> 0]]

VideoIds(d) == {r.video_id : r \in d.videos}

BaitIds(d) == {r.bait_id : r \in d.baits}

BaitNames(d) == {r.name : r \in d.baits}

\* INTEGER PRIMARY KEY AUTOINCREMENT: one more than the largest rowid the
\* table ever held (sqlite_sequence, which is rolled back with the table).
NextId(seq, ids) == Max({seq} \cup ids) + 1

\* Mutant of upsert_video: INSERT OR REPLACE, the whole row is rewritten.
upsert_videoOrReplace(d, v, c) ==
    [d EXCEPT !.videos =
        {r \in d.videos : r.video_id # v.video_id} \cup
        {[video_id |-> v.video_id, title |-> v.title, channel |-> v.channel,
          published |-> v.published, url |-> v.url,
          thumbnail |-> v.thumbnail, source |-> v.source,
          created_at |-> v.created_at,
          writers |-> {c} \cup UNION {r.writers : r \in
                          {x \in d.videos : x.video_id = v.video_id}}]}]

\* INSERT INTO videos ... ON CONFLICT(video_id) DO UPDATE SET title, channel,
\* published, url, thumbnail, source.  writers is history kept for the
\* properties: the calls whose upsert wrote the row.
upsert_video(d, v, c) ==
    IF v.video_id \in VideoIds(d)
    THEN [d EXCEPT !.videos =
            {IF r.video_id = v.video_id
             THEN [r EXCEPT !.title = v.title, !.channel = v.channel,
                            !.published = v.published, !.url = v.url,
                            !.thumbnail = v.thumbnail, !.source = v.source,
                            !.writers = @ \cup {c}]
             ELSE r : r \in d.videos}]
    ELSE [d EXCEPT !.videos = @ \cup
            {[video_id |-> v.video_id, title |-> v.title, channel |-> v.channel,
              published |-> v.published, url |-> v.url,
              thumbnail |-> v.thumbnail, source |-> v.source,
              created_at |-> v.created_at, writers |-> {c}]}]

\* SELECT bait_id FROM baits WHERE name = ?   (0: no row)
SelectBaitId(d, name) ==
    IF name \in BaitNames(d)
    THEN (CHOOSE r \in d.baits : r.name = name).bait_id
    ELSE 0

\* Mutant of InsertBait: the category column is left out of the INSERT.
InsertBaitNoCategory(d, name, category, now) ==
    IF name \in BaitNames(d)
    THEN [ok |-> FALSE, db |-> d]
    ELSE LET id == NextId(d.seq.baits, BaitIds(d)) IN
         [ok |-> TRUE,
          db |-> [d EXCEPT !.baits = @ \cup
                    {[bait_id |-> id, name |-> name, category |-> NULL,
                      created_at |-> now]},
                  !.seq.baits = id]]

\* INSERT INTO baits(name, category, created_at): name is UNIQUE.
InsertBait(d, name, category, now) ==
    IF name \in BaitNames(d)
    THEN [ok |-> FALSE, db |-> d]
    ELSE LET id == NextId(d.seq.baits, BaitIds(d)) IN
         [ok |-> TRUE,
          db |-> [d EXCEPT !.baits = @ \cup
                    {[bait_id |-> id, name |-> name, category |-> category,
                      created_at |-> now]},
                  !.seq.baits = id]]

\* Mutant of ForeignKeysOn: connect() without the pragma.
ForeignKeysOff == FALSE

\* PRAGMA foreign_keys=ON, set by connect() on every connection.
ForeignKeysOn == TRUE

DefaultConfidence == 70

\* Mutant of InsertHit: a hit of a bait already recorded for the video is
\* not inserted again (INSERT OR IGNORE on (video_id, bait_id)).
InsertHitOncePerBait(d, video_id, bait_id, h, now) ==
    IF ForeignKeysOn /\ ~(video_id \in VideoIds(d) /\ bait_id \in BaitIds(d))
    THEN [ok |-> FALSE, db |-> d]
    ELSE IF \E r \in d.hits : r.video_id = video_id /\ r.bait_id = bait_id
    THEN [ok |-> TRUE, db |-> d]
    ELSE LET id == NextId(d.seq.hits, {r.hit_id : r \in d.hits}) IN
         [ok |-> TRUE,
          db |-> [d EXCEPT !.hits = @ \cup
                    {[hit_id |-> id, video_id |-> video_id, bait_id |-> bait_id,
                      bait_text |-> Get(h, "bait_text"),
                      snippet |-> Get(h, "snippet"),
                      t_start |-> Get(h, "t_start"),
                      t_end |-> Get(h, "t_end"),
                      confidence |-> GetDefault(h, "confidence", DefaultConfidence),
                      created_at |-> now]},
                  !.seq.hits = id]]

\* Mutant of InsertHit: the row is inserted without the foreign-key check.
InsertHitUnchecked(d, video_id, bait_id, h, now) ==
    LET id == NextId(d.seq.hits, {r.hit_id : r \in d.hits}) IN
    [ok |-> TRUE,
     db |-> [d EXCEPT !.hits = @ \cup
               {[hit_id |-> id, video_id |-> video_id, bait_id |-> bait_id,
                 bait_text |-> Get(h, "bait_text"),
                 snippet |-> Get(h, "snippet"),
                 t_start |-> Get(h, "t_start"),
                 t_end |-> Get(h, "t_end"),
                 confidence |-> GetDefault(h, "confidence", DefaultConfidence),
                 created_at |-> now]},
             !.seq.hits = id]]

\* Mutant of InsertHit: INSERT OR REPLACE on (video_id, bait_id), the hit
\* takes the place of the earlier hits of its bait for the video.
InsertHitOrReplace(d, video_id, bait_id, h, now) ==
    IF ForeignKeysOn /\ ~(video_id \in VideoIds(d) /\ bait_id \in BaitIds(d))
    THEN [ok |-> FALSE, db |-> d]
    ELSE LET id == NextId(d.seq.hits, {r.hit_id : r \in d.hits}) IN
         [ok |-> TRUE,
          db |-> [d EXCEPT !.hits =
                    {r \in d.hits : r.video_id # video_id \/ r.bait_id # bait_id}
                    \cup
                    {[hit_id |-> id, video_id |-> video_id, bait_id |-> bait_id,
                      bait_text |-> Get(h, "bait_text"),
                      snippet |-> Get(h, "snippet"),
                      t_start |-> Get(h, "t_start"),
                      t_end |-> Get(h, "t_end"),
                      confidence |-> GetDefault(h, "confidence", DefaultConfidence),
                      created_at |-> now]},
                  !.seq.hits = id]]

\* INSERT INTO bait_hits(...): video_id and bait_id are foreign keys.
InsertHit(d, video_id, bait_id, h, now) ==
    IF ForeignKeysOn /\ ~(video_id \in VideoIds(d) /\ bait_id \in BaitIds(d))
    THEN [ok |-> FALSE, db |-> d]
    ELSE LET id == NextId(d.seq.hits, {r.hit_id : r \in d.hits}) IN
         [ok |-> TRUE,
          db |-> [d EXCEPT !.hits = @ \cup
                    {[hit_id |-> id, video_id |-> video_id, bait_id |-> bait_id,
                      bait_text |-> Get(h, "bait_text"),
                      snippet |-> Get(h, "snippet"),
                      t_start |-> Get(h, "t_start"),
                      t_end |-> Get(h, "t_end"),
                      confidence |-> GetDefault(h, "confidence", DefaultConfidence),
                      created_at |-> now]},
                  !.seq.hits = id]]

\* Mutant of WithExit: the transaction is committed on every exit.
WithExitAlwaysCommits(committed, working, raised) == working

\* Leaving "with connect() as conn": the connection's transaction is
\* committed when the block ends normally and rolled back when it raises.
WithExit(committed, working, raised) ==
    IF raised THEN committed ELSE working

------------------------------------------------------------------------------
(* Inputs *)

V1 == <<"v", "1">>

V2 == <<"v", "2">>

T1 == <<"t", "1">>

T2 == <<"t", "2">>

CH1 == <<"c", "1">>

CH2 == <<"c", "2">>

WHISPER == <<"w", "h", "i", "s", "p", "e", "r">>

INGEST == <<"i", "n", "g", "e", "s", "t">>

JIG == <<"j", "i", "g">>

FROG == <<"f", "r", "o", "g">>

JIGS == <<"j", "i", "g", "s">>

BOGUS == <<"b", "o", "g", "u", "s">>

\* A JSON array, and a JSON object given where an array is expected.
List(items) == [type |-> "list", items |-> items]

Object(pairs) == [type |-> "object", items |-> pairs]

\* isinstance(v, list)
IsList(v) == v.type = "list"

\* payload.video of the requests: the identifier under either key, with
\* surrounding blanks, blank, or missing.
VideoA == [video_id |-> V1, title |-> T1, channel |-> CH1]

VideoB ==
    [videoId |-> <<" ", "v", "1", " ">>, title |-> T2, channelTitle |-> CH2,
     source |-> WHISPER]

VideoC == [video_id |-> V2, title |-> T1, channel |-> <<>>, channelTitle |-> CH1]

VideoBlank == [video_id |-> <<" ", " ">>, videoId |-> <<>>, title |-> T1]

\* payload.hits of the requests.
HitsJig == List(<<[bait_name |-> JIG, category |-> JIGS, confidence |-> 80]>>)

HitsJigFrog ==
    List(<<[name |-> <<" ", "j", "i", "g", " ">>],
           [bait_name |-> FROG, category |-> BOGUS]>>)

HitsFrogBlank ==
    List(<<[bait_name |-> FROG, category |-> NULL],
           [bait_name |-> <<" ", " ">>, name |-> <<>>]>>)

HitsObject == Object(<<[key |-> <<"a">>, value |-> <<"b">>]>>)

\* The request bodies of POST /api/baits/ingest.
HttpPayloads ==
    {[video |-> VideoA, hits |-> HitsJig],
     [video |-> VideoB, hits |-> HitsJigFrog],
     [video |-> VideoA, hits |-> HitsFrogBlank],
     [video |-> VideoC, hits |-> HitsObject],
     [video |-> VideoC, hits |-> List(<<>>)],
     [video |-> VideoBlank, hits |-> HitsJig],
     [hits |-> List(<<>>)]}

\* The (video_id, hits) insert_bait_hits is called with on a connection of
\* the caller's own: hit dicts with bait_name, bait_text, snippet and
\* confidence.
InsertInputs ==
    {[video_id |-> V1,
      hits |-> <<[bait_name |-> JIG, bait_text |-> JIG, snippet |-> JIG,
                  confidence |-> 65]>>],
     [video_id |-> V2,
      hits |-> <<[bait_name |-> FROG, bait_text |-> FROG, snippet |-> FROG,
                  confidence |-> 75],
                 [bait_name |-> JIG, bait_text |-> JIG, snippet |-> JIG,
                  confidence |-> 65]>>]}

------------------------------------------------------------------------------
(* A call: the handler's or the script's position and locals *)

\* connect(): sqlite3.connect(DB_PATH), the pragmas, return conn.
connect == "open"

Idle ==
    [pc |-> "idle", kind |-> "none", cid |-> 0, payload |-> <<>>,
     video_id |-> <<>>, hits |-> <<>>, i |-> 0, n |-> 0, bid |-> 0,
     created |-> FALSE, exc |-> "none", status |-> "none", conn |-> "none",
     out |-> <<>>]

\* video = payload.get("video") or {}
VideoOf(payload) ==
    IF "video" \in DOMAIN payload /\ DOMAIN payload.video # {}
    THEN payload.video
    ELSE EmptyDict

\* hits = payload.get("hits") or []
HitsOf(payload) ==
    IF "hits" \in DOMAIN payload /\ payload.hits.items # <<>>
    THEN payload.hits
    ELSE List(<<>>)

\* Mutant of VideoIdOf: the identifier is not stripped.
VideoIdOfUnstripped(video) ==
    Or(Or(Get(video, "video_id"), Get(video, "videoId")), <<>>)

\* video_id = (video.get("video_id") or video.get("videoId") or "").strip()
VideoIdOf(video) ==
    Strip(Or(Or(Get(video, "video_id"), Get(video, "videoId")), <<>>))

\* The normalized video row of the handler.
VRow(video, video_id, now) ==
    [video_id |-> video_id,
     title |-> Get(video, "title"),
     channel |-> Or(Get(video, "channel"), Get(video, "channelTitle")),
     published |-> Or(Get(video, "published"), Get(video, "publishedAt")),
     url |-> Get(video, "url"),
     thumbnail |-> Get(video, "thumbnail"),
     source |-> Or(Get(video, "source"), INGEST),
     created_at |-> now]

\* bait_name = h.get("bait_name") or h.get("name")
BaitNameOf(h) == Or(Get(h, "bait_name"), Get(h, "name"))

\* Mutant of CleanName: the name is not stripped.
CleanNameUnstripped(name) == Or(name, <<>>)

\* ensure_bait: name = (name or "").strip()
CleanName(name) == Strip(Or(name, <<>>))

\* The database a connection reads: its own uncommitted writes when it holds
\* the write lock, the committed database otherwise.
View(p) == IF lock = p THEN work ELSE db

\* The connection can write: the lock is free (its write begins a
\* transaction and takes it) or already its own.  Otherwise the write
\* waits, up to the timeout of the connection.
CanWrite(p) == lock \in {NoLock, p}

HitCount(d, video_id) == Cardinality({r \in d.hits : r.video_id = video_id})

\* What a finished call leaves for the properties: of an HTTP ingest that
\* succeeded, its payload and the counts of the committed database just
\* before and just after it ended; of any other call, its kind and status.
Summary(q, status, dbAfter) ==
    IF status = "ok" /\ q.kind = "http"
    THEN [kind |-> q.kind, payload |-> q.payload, status |-> status,
          before |-> HitCount(db, q.video_id),
          after |-> HitCount(dbAfter, q.video_id),
          baits |-> Cardinality(dbAfter.baits),
          vrows |-> Cardinality({r \in dbAfter.videos :
                                   r.video_id = q.video_id})]
    ELSE [kind |-> q.kind, payload |-> <<>>, status |-> status,
          before |-> 0, after |-> 0, baits |-> 0, vrows |-> 0]

Push(s) == IF Len(last2) < 2 THEN Append(last2, s) ELSE <<last2[2], s>>

\* The bait rows as first committed: name, identifier and category.
FirstOf(d) ==
    first \cup {[name |-> r.name, bait_id |-> r.bait_id, category |-> r.category] :
                r \in {b \in d.baits : b.name \notin {f.name : f \in first}}}

\* Mutant of Caught: except ValueError, the store's errors are not caught.
CaughtValueErrorOnly(exc) == exc = "value_error"

\* main: except Exception as e around the insertion.  It catches every
\* failure the insertion raises: ValueError, sqlite3.IntegrityError and
\* sqlite3.OperationalError are subclasses of Exception.
Caught(exc) ==
    exc \in {"value_error", "unique_error", "foreign_key_error", "locked_error"}

\* main: inserted = 0, assigned again only when insert_bait_hits returns.
Inserted(q, status) == IF status = "ok" THEN q.n ELSE 0

\* main: payload of the JSON report, its video_id and counts; hits are the
\* extractor's hits.
Report(q, hits, status) ==
    [video_id |-> q.video_id,
     counts |-> [bait_hits |-> Len(hits),
                 inserted_to_db |-> Inserted(q, status)]]

\* What the script writes past its optional insertion, which ended with
\* status: the report, when the insertion was skipped, returned, or failed
\* and the failure was caught; nothing, when the failure leaves the script
\* as a traceback.
Written(q, status) ==
    IF status \in {"ok", "no_db", "no_hits"} \/ Caught(status)
    THEN Report(q, q.payload.hits, status)
    ELSE <<>>

\* The call of p ends: its transaction, when it has one, is committed or
\* rolled back and the write lock released; the transaction of another
\* connection is left alone.  The outcome is recorded.  The connection is left as
\* it is: the with block of a sqlite3 connection ends the transaction only,
\* and no statement of the program closes a connection.  The batch runner
\* goes on from the end of its with block, or from its except clause, to
\* the writing of the report, a later step.
Finish(p, q, status, raised) ==
    LET dbAfter == WithExit(db, View(p), raised) IN
    /\ db' = dbAfter
    /\ work' = IF lock = p THEN dbAfter ELSE work
    /\ lock' = IF lock = p THEN NoLock ELSE lock
    /\ proc' = [proc EXCEPT ![p] =
                  [q EXCEPT !.pc = IF q.kind = "batch" THEN "report" ELSE "done",
                            !.status = status]]
    /\ last2' = Push(Summary(q, status, dbAfter))
    /\ first' = FirstOf(dbAfter)
    /\ UNCHANGED <<clock, ex>>

\* Connection p takes the next call: it is idle.  Idle connections are
\* alike, so the call goes to the first of them.
Takes(p) ==
    /\ proc[p].pc = "idle"
    /\ p = "p2" => proc["p1"].pc # "idle"

\* A statement of p raises exc inside the with block: the exception is on
\* its way to the end of the block, which has not run yet.  The transaction
\* of p, when it has one, is still open and the write lock still its own.
Raise(p, q, exc) ==
    proc' = [proc EXCEPT ![p] = [q EXCEPT !.pc = "raised", !.exc = exc]]

------------------------------------------------------------------------------
(* POST /api/baits/ingest: api_baits_ingest *)

\* The request arrives.  A payload whose video has no identifier is refused
\* with status 400 before a connection is opened; otherwise the handler
\* enters "with connect() as conn".
HttpStart(p) ==
    /\ Takes(p)
    /\ clock < MaxCalls
    /\ \E payload \in HttpPayloads :
        LET video == VideoOf(payload)
            video_id == VideoIdOf(video)
            q == [Idle EXCEPT !.kind = "http", !.cid = clock + 1,
                              !.payload = payload, !.video_id = video_id]
        IN  /\ clock' = clock + 1
            /\ IF video_id = <<>>
               THEN /\ proc' = [proc EXCEPT ![p] =
                                  [q EXCEPT !.pc = "done", !.status = "no_video_id"]]
                    /\ last2' = Push(Summary(q, "no_video_id", db))
               ELSE /\ proc' = [proc EXCEPT ![p] =
                                  [q EXCEPT !.pc = "upsert_video",
                                            !.conn = connect]]
                    /\ UNCHANGED last2
            /\ UNCHANGED <<db, work, lock, first, ex>>

\* upsert_video(conn, vrow), the first statement of the connection: it
\* begins the transaction and takes the write lock.  Then the handler
\* refuses hits that are not a list: it raises HTTPException 400 with the
\* upsert written and the lock held, until the with block ends.
HttpUpsertVideo(p) ==
    LET q == proc[p]
        hits == HitsOf(q.payload)
        vrow == VRow(VideoOf(q.payload), q.video_id, q.cid)
    IN  /\ q.pc = "upsert_video"
        /\ CanWrite(p)
        /\ work' = upsert_video(View(p), vrow, q.cid)
        /\ lock' = p
        /\ IF ~IsList(hits)
           THEN Raise(p, q, "hits_not_list")
           ELSE proc' = [proc EXCEPT ![p] =
                           [q EXCEPT !.hits = hits.items, !.i = 1,
                                     !.pc = IF hits.items = <<>>
                                            THEN "commit" ELSE "ensure_bait"]]
        /\ UNCHANGED <<db, clock, last2, first, ex>>

------------------------------------------------------------------------------
(* A caller of insert_bait_hits *)

\* with connect() as conn: insert_bait_hits(conn, video_id, hits);
\* conn.commit(): the function called on a connection of the caller's own,
\* with no upsert of the video before it.
InsertStart(p) ==
    /\ Takes(p)
    /\ clock < MaxCalls
    /\ \E input \in InsertInputs :
         proc' = [proc EXCEPT ![p] =
                    [Idle EXCEPT !.kind = "insert", !.cid = clock + 1,
                                 !.payload = input,
                                 !.video_id = input.video_id,
                                 !.hits = input.hits, !.i = 1,
                                 !.conn = connect,
                                 !.pc = IF input.hits = <<>>
                                        THEN "commit" ELSE "ensure_bait"]]
    /\ clock' = clock + 1
    /\ UNCHANGED <<db, work, lock, last2, first, ex>>

------------------------------------------------------------------------------
(* insert_bait_hits and ensure_bait, one statement per step *)

\* for h in hits: bait_name, category; ensure_bait strips the name, refuses
\* an empty one (raise ValueError) and looks the bait up.
EnsureBaitSelect(p) ==
    LET q == proc[p]
        h == q.hits[q.i]
        name == CleanName(BaitNameOf(h))
        bait_id == SelectBaitId(View(p), name)
    IN  /\ q.pc = "ensure_bait"
        /\ IF name = <<>>
           THEN Raise(p, q, "value_error")
           ELSE proc' = [proc EXCEPT ![p] =
                           IF bait_id # 0
                           THEN [q EXCEPT !.bid = bait_id, !.created = FALSE,
                                          !.pc = "insert_hit"]
                           ELSE [q EXCEPT !.pc = "insert_bait"]]
        /\ UNCHANGED <<db, work, lock, clock, last2, first, ex>>

\* ensure_bait, no row found: INSERT INTO baits, then read the new bait_id.
\* The INSERT begins the transaction and takes the write lock when it is the
\* first write of the connection, also when the row is refused (UNIQUE):
\* the lock is then held until the with block ends.
EnsureBaitInsert(p) ==
    LET q == proc[p]
        h == q.hits[q.i]
        name == CleanName(BaitNameOf(h))
        r == InsertBait(View(p), name, Get(h, "category"), q.cid)
    IN  /\ q.pc = "insert_bait"
        /\ CanWrite(p)
        /\ lock' = p
        /\ IF ~r.ok
           THEN /\ work' = View(p)
                /\ Raise(p, q, "unique_error")
           ELSE /\ work' = r.db
                /\ proc' = [proc EXCEPT ![p] =
                              [q EXCEPT !.bid = SelectBaitId(r.db, name),
                                        !.created = TRUE, !.pc = "insert_hit"]]
        /\ UNCHANGED <<db, clock, last2, first, ex>>

\* INSERT INTO bait_hits; count += 1.  A refused row (FOREIGN KEY) leaves
\* the transaction open and the write lock held until the with block ends.
InsertHitRow(p) ==
    LET q == proc[p]
        h == q.hits[q.i]
        r == InsertHit(View(p), q.video_id, q.bid, h, q.cid)
    IN  /\ q.pc = "insert_hit"
        /\ CanWrite(p)
        /\ lock' = p
        /\ IF ~r.ok
           THEN /\ work' = View(p)
                /\ Raise(p, q, "foreign_key_error")
           ELSE /\ work' = r.db
                /\ proc' = [proc EXCEPT ![p] =
                              [q EXCEPT !.n = @ + 1, !.i = @ + 1,
                                        !.pc = IF q.i < Len(q.hits)
                                               THEN "ensure_bait" ELSE "commit"]]
        /\ UNCHANGED <<db, clock, last2, first, ex>>

\* conn.commit() and the normal end of the with block.
Commit(p) ==
    /\ proc[p].pc = "commit"
    /\ Finish(p, proc[p], "ok", FALSE)

\* sqlite3.connect(DB_PATH) keeps the default timeout of 5 s: a write that
\* finds the write lock held by another connection waits, and when the wait
\* outlasts the timeout the statement raises sqlite3.OperationalError
\* "database is locked", the lock still with the other connection.
LockTimeout(p) ==
    /\ proc[p].pc \in {"upsert_video", "insert_bait", "insert_hit"}
    /\ ~CanWrite(p)
    /\ Raise(p, proc[p], "locked_error")
    /\ UNCHANGED <<db, work, lock, clock, last2, first, ex>>

\* The with block ends on the exception: Connection.__exit__ rolls the
\* transaction back, which releases the write lock, and the exception
\* leaves the call.
WithExitRaised(p) ==
    /\ proc[p].pc = "raised"
    /\ Finish(p, proc[p], proc[p].exc, TRUE)

\* ORDER BY hits DESC: the orders of the groups with hits not increasing
\* (groups with equal hits come in an order the statement does not fix).
OrderByHitsDesc(G) ==
    {s \in [1..Cardinality(G) -> G] :
        /\ \A i, j \in DOMAIN s : i < j => s[i] # s[j] /\ s[i].hits >= s[j].hits}

\* LIMIT ?: the first n rows; a negative limit is no limit.
Limit(s, n) ==
    IF n < 0 \/ n >= Len(s) THEN s ELSE [i \in 1..n |-> s[i]]

\* bait_summary(conn, limit): bait_hits JOIN baits GROUP BY b.bait_id with
\* COUNT(*) and COUNT(DISTINCT bh.video_id), ORDER BY hits DESC LIMIT limit.
\* The set of the results the statement allows.
bait_summary(d, limit) ==
    LET Of(b) == {h \in d.hits : h.bait_id = b.bait_id}
        G == {[bait_name |-> b.name, category |-> b.category,
               hits |-> Cardinality(Of(b)),
               videos |-> Cardinality({h.video_id : h \in Of(b)})] :
              b \in {x \in d.baits : Of(x) # {}}}
    IN  {Limit(s, limit) : s \in OrderByHitsDesc(G)}

\* GET /api/baits/summary?limit=n: api_bait_summary reads the committed
\* store through a connection of its own.
ApiBaitSummary(p) ==
    /\ Takes(p)
    /\ clock < MaxCalls
    /\ \E limit \in Limits : \E items \in bait_summary(db, limit) :
         proc' = [proc EXCEPT ![p] =
                    [Idle EXCEPT !.kind = "summary", !.cid = clock + 1,
                                 !.payload = [limit |-> limit],
                                 !.conn = connect, !.out = items,
                                 !.pc = "done", !.status = "ok"]]
    /\ clock' = clock + 1
    /\ UNCHANGED <<db, work, lock, last2, first, ex>>

\* main, past the optional insertion: the payload of the report is built
\* and written with json.dump, and the script ends.  The store is not
\* touched; other calls have run since the with block ended.
WriteReport(p) ==
    /\ proc[p].pc = "report"
    /\ proc' = [proc EXCEPT ![p] =
                  [proc[p] EXCEPT !.pc = "done",
                                  !.out = Written(proc[p], proc[p].status)]]
    /\ UNCHANGED <<db, work, lock, clock, last2, first, ex>>

\* The response is sent, the caller goes on, or the script has ended.
Return(p) ==
    /\ proc[p].pc = "done"
    /\ proc' = [proc EXCEPT ![p] = Idle]
    /\ UNCHANGED <<db, work, lock, clock, last2, first, ex>>

------------------------------------------------------------------------------
(* transcribe_extract.py: the extractor, a pure function of the transcript
   text and the bait dictionary *)

\* str.lower(), on the letters of the inputs.
LowerChar(c) == CASE c = "A" -> "a" [] c = "B" -> "b" [] OTHER -> c

lower(s) == [i \in DOMAIN s |-> LowerChar(s[i])]

\* re.sub(r"\s+", " ", s)
RECURSIVE CollapseWhitespace(_)
CollapseWhitespace(s) ==
    IF s = <<>> THEN <<>>
    ELSE IF Head(s) \in WHITESPACE
         THEN <<" ">> \o CollapseWhitespace(LStrip(s))
         ELSE <<Head(s)>> \o CollapseWhitespace(Tail(s))

\* normalize_text: lowercase, whitespace runs to one space, strip.
normalize_text(s) == Strip(CollapseWhitespace(lower(s)))

\* s[i : i + len(sub)] == sub, i counted from 0.
At(s, sub, i) ==
    i + Len(sub) <= Len(s) /\ SubSeq(s, i + 1, i + Len(sub)) = sub

\* str.find(sub): the lowest index where sub occurs, -1 when it does not.
find(s, sub) ==
    IF \E i \in 0..Len(s) : At(s, sub, i)
    THEN CHOOSE i \in 0..Len(s) :
            At(s, sub, i) /\ \A j \in 0..(i - 1) : ~At(s, sub, j)
    ELSE -1

RECURSIVE CountFrom(_, _, _)
CountFrom(s, sub, i) ==
    IF i + Len(sub) > Len(s) THEN 0
    ELSE IF At(s, sub, i) THEN 1 + CountFrom(s, sub, i + Len(sub))
    ELSE CountFrom(s, sub, i + 1)

\* Mutant of count: every place where sub occurs is counted.
countOverlapping(s, sub) == Cardinality({i \in 0..Len(s) : At(s, sub, i)})

\* str.count(sub), sub not empty: the occurrences found from the left, each
\* search resuming after the end of the occurrence before.
count(s, sub) == CountFrom(s, sub, 0)

Min(S) == CHOOSE x \in S : \A y \in S : x <= y

\* make_excerpt(text, idx, window=60): text[start:end].strip()
make_excerpt(text, idx, window) ==
    LET start == Max({0, idx - window})
        end == Min({Len(text), idx + window})
    IN  Strip(SubSeq(text, start + 1, end))

\* The (bait, kw) of the two loops, in the order of the dictionary:
\* values that are not lists are passed over.
RECURSIVE AliasPairs(_)
AliasPairs(bait_dict) ==
    IF bait_dict = <<>> THEN <<>>
    ELSE LET entry == Head(bait_dict) IN
         (IF IsList(entry.keywords)
          THEN [i \in DOMAIN entry.keywords.items |->
                  [bait |-> entry.bait, kw |-> entry.keywords.items[i]]]
          ELSE <<>>)
         \o AliasPairs(Tail(bait_dict))

\* First loop: keyword_counts[kw_n] = text.count(kw_n), kw_n not empty.
keyword_counts(text, pairs) ==
    [kw_n \in {normalize_text(pairs[i].kw) : i \in DOMAIN pairs} \ {<<>>} |->
        count(text, kw_n)]

\* base = 65; +10 if len(kw_n) >= 10; +10 if count >= 2; +5 if count >= 4;
\* conf = min(95, base)
Confidence(kw_n, cnt) ==
    Min({95, 65 + (IF Len(kw_n) >= 10 THEN 10 ELSE 0)
                + (IF cnt >= 2 THEN 10 ELSE 0)
                + (IF cnt >= 4 THEN 5 ELSE 0)})

\* Mutant of Seen: the pair is never taken as seen.
SeenNever(seen, key) == FALSE

\* if key in seen: continue
Seen(seen, key) == key \in seen

\* Second loop: one BaitHit for each (bait, kw_n) found in the text and not
\* seen before.
RECURSIVE Scan(_, _, _, _, _)
Scan(text, counts, pairs, hits, seen) ==
    IF pairs = <<>> THEN hits
    ELSE LET x == Head(pairs)
             kw_n == normalize_text(x.kw)
             pos == find(text, kw_n)
             key == <<x.bait, kw_n>>
         IN  IF kw_n = <<>> \/ pos = -1 \/ Seen(seen, key)
             THEN Scan(text, counts, Tail(pairs), hits, seen)
             ELSE Scan(text, counts, Tail(pairs),
                       Append(hits,
                              [bait |-> x.bait, keyword |-> x.kw,
                               confidence |->
                                   Confidence(kw_n, GetDefault(counts, kw_n, 1)),
                               excerpt |-> make_excerpt(text, pos, 60)]),
                       seen \cup {key})

\* ord(c) of the characters of the inputs.
Ord(c) ==
    CASE c = "\t" -> 9 [] c = "\n" -> 10 [] c = " " -> 32
      [] c = "A" -> 65 [] c = "B" -> 66
      [] c = "a" -> 97 [] c = "b" -> 98 [] c = "x" -> 120

\* s < t for Python strings.
RECURSIVE StrLess(_, _)
StrLess(s, t) ==
    IF t = <<>> THEN FALSE
    ELSE IF s = <<>> THEN TRUE
    ELSE IF Head(s) = Head(t) THEN StrLess(Tail(s), Tail(t))
    ELSE Ord(Head(s)) < Ord(Head(t))

\* Mutant of KeyLess: the key is -confidence alone.
KeyLessByConfidence(a, b) == a.confidence > b.confidence

\* key(a) < key(b) for key = lambda h: (-h.confidence, h.bait)
KeyLess(a, b) ==
    \/ a.confidence > b.confidence
    \/ a.confidence = b.confidence /\ StrLess(a.bait, b.bait)

\* h put behind the hits whose key is not greater than its own.
RECURSIVE InsertSorted(_, _)
InsertSorted(sorted, h) ==
    IF sorted = <<>> THEN <<h>>
    ELSE IF KeyLess(h, Head(sorted)) THEN <<h>> \o sorted
    ELSE <<Head(sorted)>> \o InsertSorted(Tail(sorted), h)

\* list.sort(key=...): ascending in the key, stable.
RECURSIVE sort(_)
sort(hits) ==
    IF hits = <<>> THEN <<>>
    ELSE InsertSorted(sort(SubSeq(hits, 1, Len(hits) - 1)), hits[Len(hits)])

extract_baits(full_text, bait_dict) ==
    LET text == normalize_text(full_text)
        pairs == AliasPairs(bait_dict)
    IN  sort(Scan(text, keyword_counts(text, pairs), pairs, <<>>, {}))

\* Number of words a transcript text is made of, at most.
MaxWords == 4

TEN == [i \in 1..10 |-> "A"]

\* The words of the transcript texts: a letter, a blank, a line break and a
\* word of ten capitals.
Words == {<<"a">>, <<" ">>, <<"\n">>, TEN}

RECURSIVE Flatten(_)
Flatten(ws) == IF ws = <<>> THEN <<>> ELSE Head(ws) \o Flatten(Tail(ws))

Texts == {Flatten(ws) : ws \in UNION {[1..n -> Words] : n \in 0..MaxWords}}

\* A dictionary value that is not a list.
Str(s) == [type |-> "str", items |-> s]

\* Bait dictionaries, as the ordered (bait, keywords) of dict.items():
\* aliases that normalize to the same phrase, an alias that overlaps itself,
\* an alias under two baits, empty and blank aliases, a value that is not a
\* list, an alias of ten letters, baits not in sorted order.
DictA ==
    << [bait |-> <<"b">>,
        keywords |-> List(<< <<"a", "a">>, <<"a">>, <<"A", " ">> >>)],
       [bait |-> <<"x">>, keywords |-> Str(<<"a">>)],
       [bait |-> <<"a">>,
        keywords |-> List(<< <<"a">>, <<"a", " ", " ", "a">>, <<>>, <<" ">> >>)],
       [bait |-> <<"B">>, keywords |-> List(<< TEN >>)] >>

DictB ==
    << [bait |-> <<"b">>, keywords |-> List(<< <<"a", "\n", "a">> >>)],
       [bait |-> <<"a", "b">>,
        keywords |-> List(<< <<"A", "A">>, <<"a", "a">>, lower(TEN) >>)],
       [bait |-> <<"a">>, keywords |-> List(<< lower(TEN), <<"a">> >>)] >>

DictC ==
    << [bait |-> <<"b">>, keywords |-> List(<< <<"a">> >>)],
       [bait |-> <<"a">>, keywords |-> List(<<>>)] >>

Dicts == {DictA, DictB, DictC}

NoExtract == [pc |-> "none", full_text |-> <<>>, bait_dict |-> <<>>, hits |-> <<>>]

\* hits = extract_baits(transcript_text, BAIT_DICTIONARY)
Extract ==
    /\ ex.pc = "call"
    /\ ex' = [ex EXCEPT !.pc = "return",
                        !.hits = extract_baits(ex.full_text, ex.bait_dict)]
    /\ UNCHANGED <<db, work, lock, proc, clock, last2, first>>

------------------------------------------------------------------------------
(* scripts/transcribe_extract.py: the script and its main() *)

\* The module baits that line 18 of the script imports BAIT_DICTIONARY
\* from: src/backend/baits.py, which defines no such name (it defines
\* BAIT_TAXONOMY, BAIT_ALIASES, normalize_text and iter_alias_pairs).  With
\* it the script ends at line 18 with ImportError.
ShippedBaits == [defines |-> FALSE, BAIT_DICTIONARY |-> <<>>]

\* A module baits that defines BAIT_DICTIONARY.  No file of the repository
\* does; the value follows the specification's alias table, a static mapping
\* from a canonical bait to its list of alias phrases, here one bait with
\* one alias.  The runs of main() past line 18 all go through this value:
\* they are runs of main()'s code under the table the specification
\* describes, not runs the files of the repository produce as they are.
BaitsWithDictionary ==
    [defines |-> TRUE,
     BAIT_DICTIONARY |-> << [bait |-> JIG, keywords |-> List(<< JIG >>)] >>]

\* The runs of the script: the module baits found on its path, and the
\* command line, --text with a transcript file that exists, --video-id,
\* with and without --no-db.  The transcripts: one that names a bait, one
\* that names none.
BatchInputs ==
    {[baits |-> ShippedBaits, video_id |-> V1, text |-> JIG, no_db |-> FALSE],
     [baits |-> BaitsWithDictionary, video_id |-> V1, text |-> JIG,
      no_db |-> FALSE],
     [baits |-> BaitsWithDictionary, video_id |-> V1, text |-> JIG,
      no_db |-> TRUE],
     [baits |-> BaitsWithDictionary, video_id |-> V1, text |-> <<"a">>,
      no_db |-> FALSE]}

\* main: db_hits, one dict per hit of the extractor.
db_hits(hits) ==
    [k \in DOMAIN hits |->
        [bait_name |-> hits[k].bait, bait_text |-> hits[k].keyword,
         snippet |-> hits[k].excerpt, confidence |-> hits[k].confidence]]

\* The script is started.  Line 18, from baits import BAIT_DICTIONARY,
\* raises ImportError when the module baits does not define the name, as
\* src/backend/baits.py does not: the script then ends before main() is
\* entered, no transcript read, no connection opened, no report written.
\* Otherwise main() reads the transcript and extracts the hits; with --no-db
\* or no hit it goes on to the report, else it enters
\* "try: with connect() as conn: insert_bait_hits(conn, video_id, db_hits)".
BatchStart(p) ==
    /\ Takes(p)
    /\ clock < MaxCalls
    /\ \E input \in BatchInputs :
        LET hits == IF input.baits.defines
                    THEN extract_baits(input.text, input.baits.BAIT_DICTIONARY)
                    ELSE <<>>
            q == [Idle EXCEPT !.kind = "batch", !.cid = clock + 1,
                              !.payload = [args |-> input,
                                           read |-> input.baits.defines,
                                           hits |-> hits],
                              !.video_id = input.video_id]
            status == IF input.no_db THEN "no_db" ELSE "no_hits"
        IN  proc' = [proc EXCEPT ![p] =
                IF ~input.baits.defines
                THEN [q EXCEPT !.pc = "done", !.status = "import_error"]
                ELSE IF input.no_db \/ hits = <<>>
                THEN [q EXCEPT !.pc = "report", !.status = status]
                ELSE [q EXCEPT !.pc = "ensure_bait", !.conn = connect,
                               !.hits = db_hits(hits), !.i = 1]]
    /\ clock' = clock + 1
    /\ UNCHANGED <<db, work, lock, last2, first, ex>>

------------------------------------------------------------------------------

Init ==
    /\ db = EmptyDb
    /\ work = EmptyDb
    /\ lock = NoLock
    /\ proc = [p \in Procs |-> Idle]
    /\ clock = 0
    /\ last2 = <<>>
    /\ first = {}
    /\ ex = NoExtract

Next ==
    \E p \in Procs :
        \/ HttpStart(p)
        \/ HttpUpsertVideo(p)
        \/ BatchStart(p)
        \/ InsertStart(p)
        \/ EnsureBaitSelect(p)
        \/ EnsureBaitInsert(p)
        \/ InsertHitRow(p)
        \/ Commit(p)
        \/ LockTimeout(p)
        \/ WithExitRaised(p)
        \/ ApiBaitSummary(p)
        \/ WriteReport(p)
        \/ Return(p)

Spec == Init /\ [][Next]_vars

\* The extractor called on every text and dictionary of the inputs.
InitExtract ==
    /\ db = EmptyDb
    /\ work = EmptyDb
    /\ lock = NoLock
    /\ proc = [p \in Procs |-> Idle]
    /\ clock = 0
    /\ last2 = <<>>
    /\ first = {}
    /\ ex \in {[pc |-> "call", full_text |-> t, bait_dict |-> d, hits |-> <<>>] :
                t \in Texts, d \in Dicts}

NextExtract == Extract

SpecExtract == InitExtract /\ [][NextExtract]_vars

------------------------------------------------------------------------------
(* Vocabulary of the properties *)

\* The rows written by call c: bait and hit rows carry the call's time,
\* video rows the calls that upserted them.
BaitsBy(d, c) == {r \in d.baits : r.created_at = c}

HitsBy(d, c) == {r \in d.hits : r.created_at = c}

VideosBy(d, c) == {r \in d.videos : c \in r.writers}

NothingBy(d, c) == BaitsBy(d, c) = {} /\ HitsBy(d, c) = {} /\ VideosBy(d, c) = {}

\* A text value that is missing, empty or whitespace-only.
Blank(x) == x = NULL \/ Strip(x) = <<>>

\* A raw hit with no bait name under either key.
Nameless(h) == Blank(Get(h, "bait_name")) /\ Blank(Get(h, "name"))

\* A payload video with no identifier under either key.
NoIdentifier(video) == Blank(Get(video, "video_id")) /\ Blank(Get(video, "videoId"))

\* The call is under way, its with block not yet left.
Running(q) == q.pc \notin {"idle", "done", "report"}

Ended(q) == q.pc = "done"

\* An ingest request whose shape the handler accepts.
WellFormed(q) ==
    /\ q.kind = "http"
    /\ ~NoIdentifier(VideoOf(q.payload))
    /\ IsList(HitsOf(q.payload))

Items(q) == HitsOf(q.payload).items

\* C1: an ingest call is atomic.  While a call runs, none of its rows is in
\* the committed database; when it has failed (an empty bait name, hits that
\* are not a list, an integrity error of the store, the store locked for
\* longer than the timeout), none is; when it has
\* succeeded, the video row it upserted, one hit row per hit of the call and
\* a bait row for every bait name of the call are all there.
C1_AtomicIngest ==
    \A p \in Procs :
        LET q == proc[p] IN
        /\ Running(q) => NothingBy(db, q.cid)
        /\ Ended(q) /\ q.status # "ok" => NothingBy(db, q.cid)
        /\ Ended(q) /\ q.status = "ok" =>
             /\ q.kind = "http" =>
                  \E r \in VideosBy(db, q.cid) : r.video_id = q.video_id
             /\ Cardinality(HitsBy(db, q.cid)) = Len(q.hits)
             /\ \A k \in 1..Len(q.hits) :
                  CleanName(BaitNameOf(q.hits[k])) \in BaitNames(db)

\* An ingest failed on a later hit after it had upserted the video, created
\* a bait and inserted a hit.
C1_Witness ==
    \E p \in Procs :
        /\ Ended(proc[p]) /\ proc[p].kind = "http"
        /\ proc[p].status = "value_error"
        /\ proc[p].n >= 1 /\ proc[p].created

\* C2 as stated: a hit with no bait name is skipped, the other hits of the
\* payload are inserted and the call returns the number of hits that had a
\* name.
C2_NamelessHitSkipped ==
    \A p \in Procs :
        LET q == proc[p]
            named == {k \in 1..Len(Items(q)) : ~Nameless(Items(q)[k])}
        IN  Ended(q) /\ WellFormed(q)
              /\ (\E k \in 1..Len(Items(q)) : Nameless(Items(q)[k]))
            => /\ q.status = "ok"
               /\ q.n = Cardinality(named)
               /\ Cardinality(HitsBy(db, q.cid)) = Cardinality(named)

\* C2 amended: a hit with no bait name fails the call at that hit with the
\* empty-name error of bait resolution; the hits inserted before it are
\* rolled back with the video upsert, so that no row of the call is stored.
\* (A call that found the store locked for longer than the timeout has
\* failed before its first hit, and stores nothing either.)
C2_NamelessHitFailsCall ==
    \A p \in Procs :
        LET q == proc[p]
            nameless == {k \in 1..Len(Items(q)) : Nameless(Items(q)[k])}
        IN  Ended(q) /\ WellFormed(q) /\ nameless # {}
            => /\ q.status \in {"value_error", "locked_error"}
               /\ q.status = "locked_error" => q.i = 0 /\ q.n = 0
               /\ q.status = "value_error" =>
                    /\ q.i \in nameless /\ \A k \in nameless : q.i <= k
                    /\ q.n = q.i - 1
               /\ NothingBy(db, q.cid)

\* An ingest whose second hit has no bait name has ended, its first hit
\* having been inserted.
C2_Witness ==
    \E p \in Procs :
        /\ Ended(proc[p]) /\ WellFormed(proc[p])
        /\ \E k \in 1..Len(Items(proc[p])) : k > 1 /\ Nameless(Items(proc[p])[k])
        /\ proc[p].n = 1

\* C3: a payload whose video has no identifier is refused before any write:
\* the call ends at once with the identifier error and no row of videos,
\* baits or bait_hits, committed or not, is written by it.
C3_NoIdentifierNoWrite ==
    \A p \in Procs :
        LET q == proc[p] IN
        q.kind = "http" /\ NoIdentifier(VideoOf(q.payload))
        => /\ Ended(q) /\ q.status = "no_video_id"
           /\ NothingBy(db, q.cid) /\ NothingBy(work, q.cid)
           /\ lock # p

\* A payload with a whitespace-only identifier was refused while the store
\* held rows.
C3_Witness ==
    \E p \in Procs :
        /\ proc[p].kind = "http" /\ proc[p].status = "no_video_id"
        /\ "video" \in DOMAIN proc[p].payload
        /\ db.videos # {} /\ db.hits # {}

\* The last two calls that ended were successful ingests of the same payload.
SamePayloadTwice ==
    /\ Len(last2) = 2
    /\ last2[1].kind = "http" /\ last2[2].kind = "http"
    /\ last2[1].status = "ok" /\ last2[2].status = "ok"
    /\ last2[1].payload = last2[2].payload

\* C4 as stated: after the second of two ingests of the same payload there
\* is one video row, twice as many hit rows of the video as after the first
\* ingest, and as many bait rows as after the first.
C4_SecondIngestDoubles ==
    SamePayloadTwice
    => /\ last2[2].vrows = 1
       /\ last2[2].after = 2 * last2[1].after
       /\ last2[2].baits = last2[1].baits

\* C4 amended: the second ingest leaves one video row and the bait rows of
\* the first, and adds as many hit rows as the first ingest added, one per
\* hit of the payload; the count is twice the count after the first ingest
\* when the video had no hit row before the first ingest.
C4_SecondIngestAppends ==
    SamePayloadTwice
    => /\ last2[2].vrows = 1
       /\ last2[2].baits = last2[1].baits
       /\ last2[2].before = last2[1].after
       /\ last2[1].after - last2[1].before = Len(last2[1].payload.hits.items)
       /\ last2[2].after - last2[2].before = Len(last2[2].payload.hits.items)
       /\ last2[1].before = 0 => last2[2].after = 2 * last2[1].after

\* The same payload with hits was ingested twice for a video that had hits.
C4_Witness ==
    /\ SamePayloadTwice
    /\ last2[1].payload.hits.items # <<>>
    /\ last2[1].before > 0

\* C5: insert_bait_hits called, directly or by the batch runner, with hits
\* for a video identifier that has no row in videos fails, and neither a hit
\* row nor the bait row created before the failing insert is stored; the
\* failure is an integrity error of the store, unless the call never got to
\* write because another call kept the store locked.
C5_MissingVideoFails ==
    \A p \in Procs :
        LET q == proc[p] IN
        Ended(q) /\ q.kind \in {"insert", "batch"} /\ q.hits # <<>>
          /\ q.video_id \notin VideoIds(db)
        => /\ q.status \in {"foreign_key_error", "unique_error", "locked_error"}
           /\ q.created => q.status = "foreign_key_error"
           /\ BaitsBy(db, q.cid) = {} /\ HitsBy(db, q.cid) = {}

\* An insertion for a video that was never upserted failed on the foreign
\* key after it had created the bait row.
C5_Witness ==
    \E p \in Procs :
        /\ Ended(proc[p]) /\ proc[p].kind = "insert"
        /\ proc[p].status = "foreign_key_error" /\ proc[p].created
        /\ proc[p].video_id \notin VideoIds(db)

\* C6: every committed hit row references a video row and a bait row.
C6_ReferentialIntegrity ==
    \A h \in db.hits : h.video_id \in VideoIds(db) /\ h.bait_id \in BaitIds(db)

\* The store holds hits of an HTTP ingest and hits of a call of
\* insert_bait_hits with no upsert before it (its hits carry a snippet), and
\* such a call has failed on the foreign key.
C6_Witness ==
    /\ \E h \in db.hits : h.snippet = NULL
    /\ \E h \in db.hits : h.snippet # NULL
    /\ \E p \in Procs : proc[p].status = "foreign_key_error"

\* C7 as stated: bait resolution tolerates a concurrent insert of the same
\* name: each name has one bait row, and no call fails on the uniqueness of
\* baits.name because another call inserted the name first.
C7_ConflictTolerantResolution ==
    /\ \A r1, r2 \in db.baits : r1.name = r2.name => r1 = r2
    /\ \A p \in Procs : proc[p].status # "unique_error"

\* C8: each trimmed bait name has at most one bait row, a name keeps the
\* identifier it was first stored with, and resolving a name, with or
\* without surrounding whitespace, returns that identifier.
C8_OneIdentifierPerName ==
    /\ \A r1, r2 \in db.baits : Strip(r1.name) = Strip(r2.name) => r1 = r2
    /\ \A f \in first :
         \E r \in db.baits : r.name = f.name /\ r.bait_id = f.bait_id
    /\ \A p \in Procs :
         LET q == proc[p] IN
         q.pc = "insert_hit" =>
           \A f \in first :
             f.name = Strip(BaitNameOf(q.hits[q.i])) => q.bid = f.bait_id

\* A name given with surrounding whitespace was resolved to a stored bait.
C8_Witness ==
    \E p \in Procs :
        LET q == proc[p] IN
        /\ q.pc = "insert_hit" /\ ~q.created
        /\ BaitNameOf(q.hits[q.i]) # Strip(BaitNameOf(q.hits[q.i]))
        /\ \E f \in first : f.name = Strip(BaitNameOf(q.hits[q.i]))

\* C9: a bait created by resolution has the supplied category, null when
\* none is supplied, and a bait first stored with a category never has a
\* null category afterwards, in the committed database or in a transaction.
C9_CategoryKept ==
    /\ \A p \in Procs :
         LET q == proc[p] IN
         q.pc = "insert_hit" /\ q.created =>
           \E r \in View(p).baits :
             /\ r.bait_id = q.bid
             /\ r.category = Get(q.hits[q.i], "category")
    /\ \A f \in first : \A d \in {db, work} : \A r \in d.baits :
         r.name = f.name /\ f.category # NULL => r.category # NULL

\* A bait stored with a category was resolved by a hit that supplies none.
C9_Witness ==
    \E p \in Procs :
        LET q == proc[p] IN
        /\ q.pc = "insert_hit" /\ ~q.created
        /\ Get(q.hits[q.i], "category") = NULL
        /\ \E f \in first : f.bait_id = q.bid /\ f.category # NULL

\* The category slugs of the legacy store (BAIT_TAXONOMY) and the slug its
\* upsert_bait falls back to.
KnownCategories ==
    {<<"s", "o", "f", "t", "_", "p", "l", "a", "s", "t", "i", "c", "s">>,
     <<"j", "i", "g", "s">>,
     <<"w", "o", "r", "m", "s">>,
     <<"c", "r", "e", "a", "t", "u", "r", "e", "_", "b", "a", "i", "t", "s">>,
     <<"s", "w", "i", "m", "b", "a", "i", "t", "s">>,
     <<"s", "p", "i", "n", "n", "e", "r", "b", "a", "i", "t", "s">>,
     <<"c", "h", "a", "t", "t", "e", "r", "b", "a", "i", "t", "s">>,
     <<"c", "r", "a", "n", "k", "b", "a", "i", "t", "s">>,
     <<"j", "e", "r", "k", "b", "a", "i", "t", "s">>,
     <<"t", "o", "p", "w", "a", "t", "e", "r">>,
     <<"f", "r", "o", "g", "s">>,
     <<"s", "p", "o", "o", "n", "s">>,
     <<"d", "r", "o", "p", "_", "s", "h", "o", "t">>,
     <<"c", "a", "r", "o", "l", "i", "n", "a", "_", "r", "i", "g">>,
     <<"t", "e", "x", "a", "s", "_", "r", "i", "g">>,
     <<"n", "e", "d", "_", "r", "i", "g">>,
     <<"u", "m", "b", "r", "e", "l", "l", "a", "_", "r", "i", "g">>,
     <<"l", "i", "v", "e", "_", "b", "a", "i", "t">>,
     <<"o", "t", "h", "e", "r">>}

FallbackCategory == <<"o", "t", "h", "e", "r">>

\* C10 as stated: a bait created for a hit whose category slug is not a
\* known category is stored with the fallback slug.
C10_UnknownCategoryFallsBack ==
    \A p \in Procs :
        LET q == proc[p] IN
        q.pc = "insert_hit" /\ q.created
          /\ Get(q.hits[q.i], "category") \notin KnownCategories \cup {NULL}
        => \E r \in View(p).baits :
             r.bait_id = q.bid /\ r.category = FallbackCategory

------------------------------------------------------------------------------
(* C11 *)

\* The upsert of p's call has just run inside its transaction.
Upserted(p) ==
    /\ proc[p].pc = "upsert_video"
    /\ proc'[p].pc \in {"ensure_bait", "commit", "raised"}
    /\ lock' = p

VideoRows(d, video_id) == {r \in d.videos : r.video_id = video_id}

\* C11: an upsert of a video whose identifier is already stored leaves
\* exactly one row for that identifier, carrying the call's title, channel,
\* published, url, thumbnail and source and the identifier and created_at
\* the row had before; the other video rows are untouched and no row is
\* added.
C11_UpsertReplacesInPlace ==
    [][\A p \in Procs :
         (Upserted(p) /\ proc[p].video_id \in VideoIds(db)) =>
            LET q == proc[p]
                new == VRow(VideoOf(q.payload), q.video_id, q.cid)
                old == CHOOSE r \in db.videos : r.video_id = q.video_id
            IN  /\ Cardinality(VideoRows(work', q.video_id)) = 1
                /\ Cardinality(work'.videos) = Cardinality(db.videos)
                /\ \A r \in VideoRows(work', q.video_id) :
                      /\ r.title = new.title
                      /\ r.channel = new.channel
                      /\ r.published = new.published
                      /\ r.url = new.url
                      /\ r.thumbnail = new.thumbnail
                      /\ r.source = new.source
                      /\ r.created_at = old.created_at
                /\ \A r \in db.videos :
                      r.video_id # q.video_id => r \in work'.videos]_vars

\* A later call has rewritten a stored video: the row was created by
\* another call, and its title and source are the later call's.
C11_Witness ==
    \E p \in Procs : \E r \in work.videos : \E o \in db.videos :
        /\ lock = p
        /\ proc[p].kind = "http"
        /\ r.video_id = proc[p].video_id
        /\ o.video_id = r.video_id
        /\ r.created_at = o.created_at
        /\ r.created_at # proc[p].cid
        /\ proc[p].cid \in r.writers
        /\ r.title # o.title
        /\ r.source # o.source

------------------------------------------------------------------------------
(* C12 *)

\* C12: hit rows are append-only.  Whatever step is taken (an ingest, a
\* call of insert_bait_hits, a summary request, a commit or a rollback), every
\* committed hit row is still there afterwards with the same field values,
\* so the set of committed hit rows only grows.
C12_HitsAppendOnly ==
    [][db.hits \subseteq db'.hits]_vars

\* Hits of two calls, one of them a call of insert_bait_hits with no upsert
\* before it (its hits carry a snippet), are committed side by side and a
\* summary request has read them.
C12_Witness ==
    \E p \in Procs : \E h1, h2 \in db.hits :
        /\ proc[p].kind = "summary" /\ Ended(proc[p])
        /\ proc[p].out # <<>>
        /\ h1.created_at < h2.created_at
        /\ h2.created_at < proc[p].cid
        /\ h1.video_id = h2.video_id /\ h1.bait_id = h2.bait_id
        /\ h1.snippet # h2.snippet

------------------------------------------------------------------------------
(* C13 *)

\* The step is a summary request of p answered from the committed store.
Summarized(p) == proc[p].pc = "idle" /\ proc'[p].kind = "summary"

\* The entries are aggregates of distinct baits of the store d: hits is the
\* number of the bait's hit rows, videos the number of distinct videos among
\* them; they come in descending hits order.
Aggregates(d, items) ==
    /\ \A i \in DOMAIN items :
          \E b \in d.baits :
              LET of == {h \in d.hits : h.bait_id = b.bait_id} IN
              /\ items[i].bait_name = b.name
              /\ items[i].hits = Cardinality(of)
              /\ items[i].hits > 0
              /\ items[i].videos = Cardinality({h.video_id : h \in of})
    /\ \A i, j \in DOMAIN items :
          i < j => items[i].bait_name # items[j].bait_name
                   /\ items[i].hits >= items[j].hits

\* C13: for every store state and every requested limit, the summary is a
\* sequence of at most limit entries, each a per-bait aggregate, in
\* descending hits order.
C13_SummaryAtMostLimit ==
    [][\A p \in Procs :
         Summarized(p) =>
            /\ Len(proc'[p].out) <= proc'[p].payload.limit
            /\ Aggregates(db, proc'[p].out)]_vars

\* C13 for the limits that are not negative: the same, and the summary is
\* cut only when the store has more baits with hits than the limit.
C13_SummaryAtMostLimitFromZero ==
    [][\A p \in Procs :
         Summarized(p) =>
            LET limit == proc'[p].payload.limit
                withHits == {h.bait_id : h \in db.hits}
            IN  /\ Aggregates(db, proc'[p].out)
                /\ limit >= 0 =>
                      /\ Len(proc'[p].out) <= limit
                      /\ Len(proc'[p].out) < limit =>
                            Len(proc'[p].out) = Cardinality(withHits)
                /\ limit < 0 =>
                      Len(proc'[p].out) = Cardinality(withHits)]_vars

\* A summary cut by its limit: two baits have hits, the request asked for
\* one entry and got the bait with more hits.
C13_Witness ==
    \E p \in Procs :
        /\ proc[p].kind = "summary" /\ Ended(proc[p])
        /\ proc[p].payload.limit = 1
        /\ Len(proc[p].out) = 1
        /\ proc[p].out[1].hits = 2
        /\ Cardinality({h.bait_id : h \in db.hits}) = 2

------------------------------------------------------------------------------
(* C14 *)

\* A run of the batch runner in which the transcript has been read.
TranscriptRead(q) == q.kind = "batch" /\ q.payload.read

\* The insertion of the run was tried and ended with an exception.
InsertionFailed(q) == q.status \notin {"ok", "no_db", "no_hits"}

\* C14: in the batch runner, once the transcript has been read, the JSON
\* report is written on every path: a run that has ended has written its
\* report, which counts the extractor's hits; a failure of the optional
\* insertion was caught, the report then says inserted_to_db = 0 and no hit
\* row (and no bait row) of the run is stored; after an insertion that
\* succeeded inserted_to_db is the number of the run's stored hit rows.
C14_ReportAlwaysWritten ==
    \A p \in Procs :
        LET q == proc[p] IN
        TranscriptRead(q) /\ Ended(q) =>
            /\ q.out # <<>>
            /\ q.out.counts.bait_hits = Len(q.payload.hits)
            /\ InsertionFailed(q) =>
                  /\ q.out.counts.inserted_to_db = 0
                  /\ NothingBy(db, q.cid)
            /\ q.status \in {"no_db", "no_hits"} =>
                  /\ q.out.counts.inserted_to_db = 0
                  /\ NothingBy(db, q.cid)
            /\ q.status = "ok" =>
                  /\ q.out.counts.inserted_to_db = Len(q.payload.hits)
                  /\ Cardinality(HitsBy(db, q.cid)) = Len(q.payload.hits)

\* The insertion of a batch run failed on the store after it had created a
\* bait row, and the report was written all the same, with inserted_to_db 0
\* and the extractor's hit counted, nothing of the run stored.
C14_Witness ==
    \E p \in Procs :
        LET q == proc[p] IN
        /\ TranscriptRead(q) /\ Ended(q)
        /\ q.status = "foreign_key_error" /\ q.created
        /\ q.out # <<>>
        /\ q.out.counts.inserted_to_db = 0
        /\ q.out.counts.bait_hits = 1
        /\ NothingBy(db, q.cid)

------------------------------------------------------------------------------
(* C15, C16, C17: the extractor *)

\* sub is a substring of s.
Occurs(sub, s) ==
    \E i \in 1..Len(s) : \E j \in i..Len(s) : SubSeq(s, i, j) = sub

\* The hits of the call that are of the pair (bait, normalized alias).
HitsOfPair(bait, kw_n) ==
    {i \in DOMAIN ex.hits :
        ex.hits[i].bait = bait /\ normalize_text(ex.hits[i].keyword) = kw_n}

\* The place of a hit's (bait, alias) in the alias table, the first one.
AliasIndex(h) ==
    LET pairs == AliasPairs(ex.bait_dict) IN
    Min({k \in DOMAIN pairs : pairs[k].bait = h.bait /\ pairs[k].kw = h.keyword})

\* C15: extract gives at most one hit for a (bait, normalized alias) pair,
\* however often the alias occurs and even when several aliases of the bait
\* normalize to the same phrase; every hit is of a (bait, alias) pair of the
\* table whose normalized alias occurs in the normalized text.
C15_OneHitPerPair ==
    ex.pc = "return" =>
        /\ \A i \in DOMAIN ex.hits :
              LET kw_n == normalize_text(ex.hits[i].keyword) IN
              /\ HitsOfPair(ex.hits[i].bait, kw_n) = {i}
              /\ kw_n # <<>>
              /\ Occurs(kw_n, normalize_text(ex.full_text))
              /\ \E e \in DOMAIN ex.bait_dict :
                    /\ ex.bait_dict[e].bait = ex.hits[i].bait
                    /\ IsList(ex.bait_dict[e].keywords)
                    /\ \E k \in DOMAIN ex.bait_dict[e].keywords.items :
                          ex.bait_dict[e].keywords.items[k] = ex.hits[i].keyword

\* A bait has two aliases that normalize to the same phrase, the phrase
\* occurs more than once in the text, and the call gave one hit for it.
C15_Witness ==
    /\ ex.pc = "return"
    /\ \E e \in DOMAIN ex.bait_dict :
          /\ IsList(ex.bait_dict[e].keywords)
          /\ \E k, m \in DOMAIN ex.bait_dict[e].keywords.items :
                LET kw_n == normalize_text(ex.bait_dict[e].keywords.items[k]) IN
                /\ k < m
                /\ kw_n = normalize_text(ex.bait_dict[e].keywords.items[m])
                /\ ex.bait_dict[e].keywords.items[k] # ex.bait_dict[e].keywords.items[m]
                /\ Cardinality({i \in 0..Len(ex.full_text) :
                                  At(normalize_text(ex.full_text), kw_n, i)}) >= 2
                /\ Cardinality(HitsOfPair(ex.bait_dict[e].bait, kw_n)) = 1

\* s <= t for Python strings.
StrLeq(s, t) == s = t \/ StrLess(s, t)

\* C16: the output of extract is sorted.  Of two hits the earlier has the
\* greater confidence, or the same confidence and a bait not greater; hits
\* of the same confidence and bait come in alias-table order.
C16_Sorted ==
    ex.pc = "return" =>
        \A i, j \in DOMAIN ex.hits :
            i < j =>
                \/ ex.hits[i].confidence > ex.hits[j].confidence
                \/ /\ ex.hits[i].confidence = ex.hits[j].confidence
                   /\ StrLeq(ex.hits[i].bait, ex.hits[j].bait)
                   /\ ex.hits[i].bait = ex.hits[j].bait =>
                         AliasIndex(ex.hits[i]) < AliasIndex(ex.hits[j])

\* The sort has moved a hit: two hits of the same confidence come in bait
\* order against their order in the table, two more of the same confidence
\* and bait in table order, and a hit of lower confidence after them.
C16_Witness ==
    /\ ex.pc = "return"
    /\ \E i, j \in DOMAIN ex.hits :
          /\ i < j
          /\ ex.hits[i].confidence = ex.hits[j].confidence
          /\ ex.hits[i].bait # ex.hits[j].bait
          /\ AliasIndex(ex.hits[i]) > AliasIndex(ex.hits[j])
    /\ \E i, j \in DOMAIN ex.hits :
          /\ i < j
          /\ ex.hits[i].confidence = ex.hits[j].confidence
          /\ ex.hits[i].bait = ex.hits[j].bait
    /\ \E i, j \in DOMAIN ex.hits :
          i < j /\ ex.hits[i].confidence > ex.hits[j].confidence

\* The occurrences of sub in s no two of which overlap, taken from the
\* right end: j is the length of the part of s still to search.
RECURSIVE NonOverlappingBack(_, _, _)
NonOverlappingBack(s, sub, j) ==
    IF j < Len(sub) THEN 0
    ELSE IF SubSeq(s, j - Len(sub) + 1, j) = sub
         THEN 1 + NonOverlappingBack(s, sub, j - Len(sub))
         ELSE NonOverlappingBack(s, sub, j - 1)

NonOverlapping(s, sub) == NonOverlappingBack(s, sub, Len(s))

Bonus(cond, points) == IF cond THEN points ELSE 0

\* C17: the confidence of every hit is min(95, 65 + 10 if the normalized
\* alias has 10 characters or more + 10 if it occurs twice or more + 5 if
\* it occurs four times or more), occurrences counted without overlap in
\* the normalized text; so it lies between 0 and 95.
C17_Confidence ==
    ex.pc = "return" =>
        \A i \in DOMAIN ex.hits :
            LET kw_n == normalize_text(ex.hits[i].keyword)
                n == NonOverlapping(normalize_text(ex.full_text), kw_n)
            IN  /\ ex.hits[i].confidence =
                     Min({95, 65 + Bonus(Len(kw_n) >= 10, 10)
                                 + Bonus(n >= 2, 10) + Bonus(n >= 4, 5)})
                /\ ex.hits[i].confidence >= 0
                /\ ex.hits[i].confidence <= 95

\* One call gave a hit with every bonus (a ten-letter alias found four
\* times: 90) and a hit of a short alias found often (80).
C17_Witness ==
    /\ ex.pc = "return"
    /\ \E i, j \in DOMAIN ex.hits :
          /\ ex.hits[i].confidence = 90
          /\ Len(normalize_text(ex.hits[i].keyword)) >= 10
          /\ ex.hits[j].confidence = 80
          /\ Len(normalize_text(ex.hits[j].keyword)) < 10

------------------------------------------------------------------------------
(* C18 *)

\* An ingestion call: the HTTP ingest, or insert_bait_hits called inside
\* "with connect() as conn".
Ingest(q) == q.kind \in {"http", "insert"}

\* C18: an ingestion call releases (closes) the connection it acquired on
\* every exit path, normal return, rejection of the payload and storage
\* failure: once the call has ended, no connection it opened is open.
C18_ConnectionClosed ==
    \A p \in Procs :
        Ingest(proc[p]) /\ Ended(proc[p])
        => proc[p].conn # "open"

\* What does hold: a call opens at most one connection, none when the
\* payload is refused for its missing identifier, and when it has ended its
\* transaction is over and the write lock is not its own.
C18_TransactionReleased ==
    \A p \in Procs :
        LET q == proc[p] IN
        Ingest(q) /\ Ended(q) =>
            /\ lock # p
            /\ q.conn = "none" <=> q.status = "no_video_id"

====
